---- MODULE Spec2Model ----
(***************************************************************************)
(* Model of 23_2_1.py: KinoMailParser (the page fetcher, the film-card     *)
(* extractor, the pagination loop of get_top_films) and the __main__       *)
(* script that exports the collected films.                                *)
(*                                                                         *)
(* Text is a tuple of chunks, a chunk being one whitespace character or a   *)
(* run of other characters, so that str.strip(), the ', '.join of the      *)
(* genres and base_url + href are computed, not assumed. '' is <<>>.       *)
(***************************************************************************)
EXTENDS Integers, Sequences, FiniteSets, TLC

(* ------------------------------ bounds --------------------------------- *)
\* most cards the site puts on one page
MaxCards == 2
\* pages the Spec run may fetch (the page counter is unbounded in the code)
MaxPage == 3
\* the small in-range counts a caller asks for (besides the range's ends)
MaxN == 2

(* --------------------------- program constants ------------------------- *)
\* get_top_films: "if count < 1 or count > 150"
MAX_COUNT == 150

\* self.base_url = 'https://kino.mail.ru'
base_url == <<"https://kino.mail.ru">>

\* self.top_url = f'{self.base_url}/cinema/top/'
top_url == base_url \o <<"/cinema/top/">>

\* rating default when the rating element is missing: the literal "Н/Д"
\* (written here in Latin letters)
RATING_NA == <<"N/D">>

\* ', ' of ', '.join(...)
GENRE_SEP == <<",", " ">>

(* ------------------------------ text ----------------------------------- *)
IsSpace(ch) == ch = " "

RECURSIVE LStrip(_)
LStrip(s) ==
  IF s = <<>> THEN <<>>
  ELSE IF IsSpace(Head(s)) THEN LStrip(Tail(s)) ELSE s

RECURSIVE RStrip(_)
RStrip(s) ==
  IF s = <<>> THEN <<>>
  ELSE IF IsSpace(s[Len(s)]) THEN RStrip(SubSeq(s, 1, Len(s) - 1)) ELSE s

\* str.strip(): whitespace removed at both ends
Strip(s) == RStrip(LStrip(s))

\* sep.join(parts)
RECURSIVE Join(_, _)
Join(sep, parts) ==
  IF parts = <<>> THEN <<>>
  ELSE IF Len(parts) = 1 THEN parts[1]
  ELSE parts[1] \o sep \o Join(sep, Tail(parts))

\* str(page)
PageStr(p) == <<ToString(p)>>

\* s[:n]
Take(s, n) == SubSeq(s, 1, IF n < Len(s) THEN n ELSE Len(s))

(* --------------------------- the Film record --------------------------- *)
\* @dataclass Film; director defaults to ""
Film(title, original_title, year, rating, genres, country, url) ==
  [title |-> title, original_title |-> original_title, year |-> year,
   rating |-> rating, genres |-> genres, country |-> country, url |-> url,
   director |-> <<>>]

\* the dataclass's fields in definition order (the table exports' columns)
FilmFields ==
  <<"title", "original_title", "year", "rating", "genres", "country", "url", "director">>

(* ------------------------- cards as the site serves them --------------- *)
\* An element select_one() may or may not find: present, with its text.
Absent == [present |-> FALSE, text |-> <<>>]
Elem(t) == [present |-> TRUE, text |-> t]

\* The link anchor: absent, present without href, present with href.
NoAnchor == [present |-> FALSE, has_href |-> FALSE, href |-> <<>>]
AnchorNoHref == [present |-> TRUE, has_href |-> FALSE, href |-> <<>>]
Anchor(h) == [present |-> TRUE, has_href |-> TRUE, href |-> h]

\* One div.p-itemevent-small. raises: some lookup on the card throws.
Card(title, orig, details, rating, link, raises) ==
  [title_elem |-> title, original_title_elem |-> orig, details |-> details,
   rating_elem |-> rating, url_elem |-> link, raises |-> raises]

CardFull ==
  Card(Elem(<<" ","a"," ">>), Elem(<<"A">>),
       <<(<<"c">>), (<<"1">>), (<<"g">>), (<<" ","d">>)>>,
       Elem(<<"8">>), Anchor(<<"/film/1">>), FALSE)
CardBlankTitle ==
  Card(Elem(<<" ">>), Absent, <<(<<"c">>), (<<"2">>)>>, Absent,
       Anchor(<<"/film/3">>), FALSE)
CardNoTitle ==
  Card(Absent, Absent, <<(<<"c">>)>>, Elem(<<"7">>), Anchor(<<"/film/4">>), FALSE)
CardNoAnchor ==
  Card(Elem(<<"a">>), Absent, <<>>, Absent, NoAnchor, FALSE)
CardNoHref ==
  Card(Elem(<<"a">>), Absent, <<>>, Absent, AnchorNoHref, FALSE)
CardBroken ==
  Card(Elem(<<"a">>), Absent, <<>>, Absent, Anchor(<<"/film/5">>), TRUE)

Cards ==
  {CardFull, CardBlankTitle, CardNoTitle, CardNoAnchor, CardNoHref, CardBroken}

(* --------------------------- _parse_film_card -------------------------- *)
None == [some |-> FALSE]
Some(f) == [some |-> TRUE, film |-> f]

\* mutant: a card without a title element gets an empty title instead of
\* being dropped
ParseFilmCardPlaceholder(card) ==
  IF card.raises THEN None
  ELSE IF ~card.url_elem.present \/ ~card.url_elem.has_href THEN None
  ELSE Some(Film(Strip(card.title_elem.text), <<>>, <<>>, RATING_NA, <<>>, <<>>,
                 base_url \o card.url_elem.href))

ParseFilmCard(card) ==
  IF card.raises THEN None                                  \* except Exception
  ELSE IF ~card.title_elem.present THEN None                \* if not title_elem
  ELSE IF ~card.url_elem.present \/ ~card.url_elem.has_href THEN None
  ELSE
    LET details == card.details
        title == Strip(card.title_elem.text)
        original_title ==
          IF card.original_title_elem.present
          THEN Strip(card.original_title_elem.text) ELSE <<>>
        country == IF Len(details) > 0 THEN Strip(details[1]) ELSE <<>>
        year == IF Len(details) > 1 THEN Strip(details[2]) ELSE <<>>
        genres ==
          IF Len(details) > 2
          THEN Join(GENRE_SEP,
                    [i \in 1..(Len(details) - 2) |-> Strip(details[i + 2])])
          ELSE <<>>
        rating ==
          IF card.rating_elem.present THEN Strip(card.rating_elem.text)
          ELSE RATING_NA
        url == base_url \o card.url_elem.href
    IN Some(Film(title, original_title, year, rating, genres, country, url))

(* ------------------------------ _get_page ------------------------------ *)
\* What _get_page returns: None, or response.text (possibly the empty string),
\* the text standing for the cards soup.select('div.p-itemevent-small') finds.
HtmlNone == [none |-> TRUE, empty |-> FALSE, cards |-> <<>>]
HtmlEmpty == [none |-> FALSE, empty |-> TRUE, cards |-> <<>>]
HtmlDoc(cs) == [none |-> FALSE, empty |-> FALSE, cards |-> cs]

\* pages of at most MaxCards cards
Pages == UNION {[1..n -> Cards] : n \in 0..MaxCards}

\* What the network does with one GET: requests raises a RequestException
\* (connection error, timeout, raise_for_status), or a body arrives.
SiteAnswers ==
  {[raised |-> TRUE, text |-> HtmlNone], [raised |-> FALSE, text |-> HtmlEmpty]}
  \cup {[raised |-> FALSE, text |-> HtmlDoc(cs)] : cs \in Pages}

\* time.sleep(self.delay); requests.get(...); except RequestException: return None
GetPage(answer) == IF answer.raised THEN HtmlNone ELSE answer.text

\* the value as the html variable shows it
HtmlKind(h) == IF h.none THEN "None" ELSE IF h.empty THEN "''" ELSE "markup"

\* mutant: "if html == ''" in place of "if not html"
NotHtmlEmptyOnly(h) == h.empty

\* "if not html": None and '' are both falsy
NotHtml(h) == h.none \/ h.empty

\* soup.select('div.p-itemevent-small')
SelectCards(h) == h.cards

\* url = f"{self.top_url}?page={page}" if page > 1 else self.top_url
Url(p) ==
  IF p > 1 THEN top_url \o <<"?page=">> \o PageStr(p) ELSE top_url

(* ----------------------------- get_top_films --------------------------- *)
\* mutant: the upper end of the range off by one
CountOutOfRangeLax(n) == n < 1 \/ n > MAX_COUNT + 1

\* "if count < 1 or count > 150: raise ValueError"
CountOutOfRange(n) == n < 1 \/ n > MAX_COUNT

\* mutant: the loop gives up one record short
WhileConditionShort(fs, n) == Len(fs) + 1 < n

\* while len(films) < count
WhileCondition(fs, n) == Len(fs) < n

\* "if len(films) >= count: break", after an append
BreakAtCount(fs, n) == Len(fs) >= n

\* return films[:count]
Returned(fs, n) == Take(fs, n)

\* mutant: films.insert(0, film)
AccumulateFront(fs, film) == <<film>> \o fs

\* films.append(film)
Accumulate(fs, film) == Append(fs, film)

\* mutant: the page counter is not advanced
NextPageNoStuck(p) == p

\* page += 1
NextPageNo(p) == p + 1

\* mutant: a card that gives no film ends the page
ForLoopEndsOnBadCard(found, fs, n, i, len) ==
  ~found \/ BreakAtCount(fs, n) \/ i = len

\* the for loop is left by the break at count, or after the last card
ForLoopEnds(found, fs, n, i, len) == (found /\ BreakAtCount(fs, n)) \/ i = len

\* the records a whole page holds: one per card _parse_film_card accepts,
\* in document order
RECURSIVE ValidRecords(_)
ValidRecords(cs) ==
  IF cs = <<>> THEN <<>>
  ELSE LET r == ParseFilmCard(Head(cs))
       IN (IF r.some THEN <<r.film>> ELSE <<>>) \o ValidRecords(Tail(cs))

(* -------------------------------- exports ------------------------------ *)
NotWritten == [written |-> FALSE, rows |-> <<>>]

\* json.dump([vars(f) for f in films], ...): one object per film
JsonFile(fs) == [written |-> TRUE, rows |-> [i \in 1..Len(fs) |-> fs[i]]]

\* pd.DataFrame([vars(f) for f in films]).to_csv / to_excel (index=False):
\* a header of the field names, one row of values per film
TableFile(fs) ==
  [written |-> TRUE, header |-> FilmFields,
   rows |-> [i \in 1..Len(fs) |-> [j \in 1..Len(FilmFields) |-> fs[i][FilmFields[j]]]]]

(* --------------------------------- __main__ ---------------------------- *)
\* "if count < 1 or count > 150: raise ValueError" of the script
MainRejects(n) == n < 1 \/ n > MAX_COUNT

\* mutant: the script exports whatever came back
NotFilmsNever(fs) == FALSE

\* "if not films" of the script
NotFilms(fs) == fs = <<>>

\* what the user may type: an integer, or text int() cannot parse
ConsoleInputs(S) ==
  {[is_int |-> TRUE, value |-> n] : n \in S} \cup {[is_int |-> FALSE, value |-> 0]}

\* the counts tried: the small ones, and those just outside [1, MAX_COUNT]
Counts == {-1, 0} \cup (1..MaxN) \cup {MAX_COUNT + 1}

\* the counts of the termination check (a run to MAX_COUNT films is out of
\* the model checker's reach)
SmallCounts == 1..MaxN

(* --------------------------------- state ------------------------------- *)
VARIABLES
  pc,          \* where the program is
  caller,      \* "main": the script; "api": get_top_films called directly
  count,       \* the requested count (0 until one is given)
  films,       \* get_top_films: the accumulator
  page,        \* get_top_films: the page counter (0 before the call)
  html,        \* get_top_films: what the last _get_page returned: "None", "''",
               \* "markup" ("unset" before the first fetch)
  cards,       \* get_top_films: the cards of the page being processed
  idx,         \* get_top_films: position of the for loop in cards
  result,      \* what get_top_films returned
  outcome,     \* "Collecting", "Done", "Stopped_fetch_failure",
               \* "Stopped_no_more_results", "Rejected"
  requests,    \* history: the URL of every _get_page call (sleep, then GET)
  discovered,  \* history: the valid-card records of every fetched page
  pageBase,    \* history: the accumulator when the current page was fetched
  files,       \* the three export files
  output       \* the script's messages, in order

vars ==
  <<pc, caller, count, films, page, html, cards, idx, result, outcome,
    requests, discovered, pageBase, files, output>>

collector == <<films, page, html, cards, idx, result, outcome, requests,
               discovered, pageBase>>

Init ==
  /\ pc = "start"
  /\ caller = "none"
  /\ count = 0
  /\ films = <<>>
  /\ page = 0
  /\ html = "unset"
  /\ cards = <<>>
  /\ idx = 0
  /\ result = <<>>
  /\ outcome = "Collecting"
  /\ requests = <<>>
  /\ discovered = <<>>
  /\ pageBase = <<>>
  /\ files = [json |-> NotWritten, csv |-> NotWritten, xlsx |-> NotWritten]
  /\ output = <<>>

(* -------------------------------- actions ------------------------------ *)
\* __main__: count = int(input(...)); the range check; exit() on either failure
MainInput(S) ==
  /\ pc = "start"
  /\ \E inp \in ConsoleInputs(S) :
       IF inp.is_int /\ ~MainRejects(inp.value)
       THEN /\ count' = inp.value
            /\ pc' = "call"
            /\ output' = Append(output, "collecting")
       ELSE /\ count' = (IF inp.is_int THEN inp.value ELSE count)
            /\ pc' = "exited"
            /\ output' = Append(output, "input_error")
  /\ caller' = "main"
  /\ UNCHANGED <<collector, files>>

\* a library user calls parser.get_top_films(n) directly
DirectCall(S) ==
  /\ pc = "start"
  /\ \E n \in S : count' = n
  /\ caller' = "api"
  /\ pc' = "call"
  /\ UNCHANGED <<collector, files, output>>

\* get_top_films, to the loop: the range check, films = [], page = 1
GetTopFilmsEnter ==
  /\ pc = "call"
  /\ IF CountOutOfRange(count)
     THEN /\ pc' = "raised"
          /\ outcome' = "Rejected"
          /\ UNCHANGED <<films, page>>
     ELSE /\ pc' = "while"
          /\ films' = <<>>
          /\ page' = 1
          /\ UNCHANGED outcome
  /\ UNCHANGED <<caller, count, html, cards, idx, result, requests, discovered,
                 pageBase, files, output>>

\* one pass of the while loop up to the for loop: the fetch and both breaks.
\* abstractPage: the request log keeps its first MaxPage entries only.
WhileFetch(abstractPage) ==
  /\ pc = "while"
  /\ WhileCondition(films, count)
  /\ abstractPage \/ page <= MaxPage
  /\ \E answer \in SiteAnswers :
       LET h == GetPage(answer)
           cs == SelectCards(h)
       IN /\ html' = HtmlKind(h)
          /\ requests' = (IF abstractPage /\ Len(requests) >= MaxPage
                          THEN requests ELSE Append(requests, Url(page)))
          /\ IF NotHtml(h)
             THEN /\ pc' = "returned"
                  /\ outcome' = "Stopped_fetch_failure"
                  /\ result' = Returned(films, count)
                  /\ UNCHANGED <<cards, idx, discovered, pageBase>>
             ELSE IF cs = <<>>
             THEN /\ pc' = "returned"
                  /\ outcome' = "Stopped_no_more_results"
                  /\ result' = Returned(films, count)
                  /\ cards' = cs
                  /\ UNCHANGED <<idx, discovered, pageBase>>
             ELSE /\ pc' = "for"
                  /\ cards' = cs
                  /\ idx' = 1
                  /\ discovered' = discovered \o ValidRecords(cs)
                  /\ pageBase' = films
                  /\ UNCHANGED <<outcome, result>>
  /\ UNCHANGED <<caller, count, films, page, files, output>>

\* the while condition fails: return films[:count]
WhileExit ==
  /\ pc = "while"
  /\ ~WhileCondition(films, count)
  /\ pc' = "returned"
  /\ outcome' = "Done"
  /\ result' = Returned(films, count)
  /\ UNCHANGED <<caller, count, films, page, html, cards, idx, requests,
                 discovered, pageBase, files, output>>

\* one pass of the for loop: parse the card, append, break at count; after the
\* loop (break or last card) page += 1.
\* abstractPage: page numbers above MaxPage are kept as MaxPage.
ForCard(abstractPage) ==
  /\ pc = "for"
  /\ LET film == ParseFilmCard(cards[idx])
         fs == IF film.some THEN Accumulate(films, film.film) ELSE films
         leave == ForLoopEnds(film.some, fs, count, idx, Len(cards))
     IN /\ films' = fs
        /\ IF leave
           THEN /\ pc' = "while"
                /\ page' = (IF abstractPage /\ page >= MaxPage THEN page
                            ELSE NextPageNo(page))
                /\ idx' = idx
           ELSE /\ pc' = "for"
                /\ idx' = idx + 1
                /\ page' = page
  /\ UNCHANGED <<caller, count, html, cards, result, outcome, requests,
                 discovered, pageBase, files, output>>

\* __main__ after get_top_films: "if not films" / the success message
MainReport ==
  /\ pc = "returned"
  /\ caller = "main"
  /\ IF NotFilms(result)
     THEN /\ output' = Append(output, "no_data")
          /\ pc' = "finished"
     ELSE /\ output' = Append(output, "collected")
          /\ pc' = "save_json"
  /\ UNCHANGED <<caller, count, collector, files>>

SaveToJson ==
  /\ pc = "save_json"
  /\ files' = [files EXCEPT !.json = JsonFile(result)]
  /\ output' = Append(output, "saved_json")
  /\ pc' = "save_csv"
  /\ UNCHANGED <<caller, count, collector>>

SaveToCsv ==
  /\ pc = "save_csv"
  /\ files' = [files EXCEPT !.csv = TableFile(result)]
  /\ output' = Append(output, "saved_csv")
  /\ pc' = "save_excel"
  /\ UNCHANGED <<caller, count, collector>>

SaveToExcel ==
  /\ pc = "save_excel"
  /\ files' = [files EXCEPT !.xlsx = TableFile(result)]
  /\ output' = Append(output, "saved_xlsx")
  /\ pc' = "finished"
  /\ UNCHANGED <<caller, count, collector>>

Next ==
  \/ MainInput(Counts)
  \/ DirectCall(Counts)
  \/ GetTopFilmsEnter
  \/ WhileFetch(FALSE)
  \/ WhileExit
  \/ ForCard(FALSE)
  \/ MainReport
  \/ SaveToJson
  \/ SaveToCsv
  \/ SaveToExcel

Spec == Init /\ [][Next]_vars

\* The termination check: small counts, page numbers above MaxPage folded into
\* MaxPage so that a run that never ends is a cycle; the single thread always
\* takes its next step.
NextLive ==
  \/ MainInput(SmallCounts)
  \/ DirectCall(SmallCounts)
  \/ GetTopFilmsEnter
  \/ WhileFetch(TRUE)
  \/ WhileExit
  \/ ForCard(TRUE)
  \/ MainReport
  \/ SaveToJson
  \/ SaveToCsv
  \/ SaveToExcel

LiveSpec == Init /\ [][NextLive]_vars /\ WF_vars(NextLive)

(* ================================ claims =============================== *)
\* get_top_films has returned
Finals == {"Done", "Stopped_fetch_failure", "Stopped_no_more_results"}

IsPrefix(a, b) == Len(a) <= Len(b) /\ a = SubSeq(b, 1, Len(a))

\* the card lacks a required element
LacksRequired(c) ==
  ~c.title_elem.present \/ ~c.url_elem.present \/ ~c.url_elem.has_href

\* extraction of the card fails
Fails(c) == c.raises \/ LacksRequired(c)
Extracts(c) == ~Fails(c)

AllFiles == {"json", "csv", "xlsx"}

\* C1: for a count N in [1, MAX_COUNT] the returned sequence has at most N
\* records, and exactly N whenever the pages the pagination reached (those up
\* to the first failed fetch or the first page without cards) hold at least N
\* valid cards; it is shorter than N only when the run was stopped, and then
\* it holds every valid card of the pages reached.
C1_LengthBound ==
  outcome \in Finals =>
    /\ count \in 1..MAX_COUNT
    /\ Len(result) <= count
    /\ (Len(discovered) >= count => Len(result) = count)
    /\ (Len(result) < count =>
          outcome # "Done" /\ Len(result) = Len(discovered))

\* a run that found more valid cards than asked for and returned exactly N
C1_Witness ==
  /\ outcome = "Done"
  /\ Len(discovered) > count
  /\ Len(result) = count
  /\ Len(requests) >= 2

\* C2: every returned record has a non-empty title and a non-empty url.
C2_NonEmptyTitleAndUrl ==
  \A i \in 1..Len(result) : result[i].title # <<>> /\ result[i].url # <<>>

\* C3: a count outside [1, MAX_COUNT] is rejected before any fetch: no
\* _get_page call (sleep or GET) is ever made, nothing is collected, returned
\* or written, and the call ends in the ValueError (the script: in its error
\* message and exit).
C3_RejectedBeforeFetch ==
  (pc # "start" /\ (count < 1 \/ count > MAX_COUNT)) =>
    /\ requests = <<>>
    /\ films = <<>> /\ result = <<>> /\ page = 0
    /\ \A f \in AllFiles : ~files[f].written
    /\ \/ pc = "call" /\ caller = "api" /\ outcome = "Collecting"
       \/ pc = "raised" /\ caller = "api" /\ outcome = "Rejected"
       \/ pc = "exited" /\ caller = "main" /\ output = <<"input_error">>

C3_Witness ==
  /\ pc = "raised"
  /\ count = MAX_COUNT + 1
  /\ requests = <<>>

\* C4: a failed fetch is not retried and ends the pagination: the step that
\* gets no page returns, without raising, exactly the records accumulated
\* from the earlier pages, and no fetch follows it.
C4_FailedFetchEndsRun ==
  [][ /\ (requests' # requests /\ html' = "None") =>
            /\ pc' = "returned"
            /\ outcome' = "Stopped_fetch_failure"
            /\ result' = films /\ films' = films
            /\ result' = discovered
      /\ (html = "None" =>
            /\ requests' = requests
            /\ result' = result /\ outcome' = outcome
            /\ pc' \in {"returned", "save_json", "save_csv", "save_excel",
                        "finished"})
    ]_vars

\* a second page that failed after a first page gave records
C4_Witness ==
  /\ html = "None"
  /\ Len(requests) = 2
  /\ result # <<>>
  /\ Len(result) < count

\* C5: a card without its title element, without its URL anchor, or whose
\* anchor has no href, yields nothing, and the accumulator is unchanged by it.
C5_RequiredMissingDropped ==
  [][ (pc = "for" /\ LacksRequired(cards[idx])) =>
        (films' = films /\ ~ParseFilmCard(cards[idx]).some) ]_vars

\* such a card was processed in second place, after a card that gave a record
C5_Witness ==
  /\ pc = "while"
  /\ Len(cards) = 2 /\ idx = 2
  /\ LacksRequired(cards[2]) /\ ~cards[2].raises
  /\ Extracts(cards[1])
  /\ Len(films) = Len(pageBase) + 1

\* C6: a card whose extraction fails is skipped without ending the page: the
\* loop goes on to the next card, and at every point of the page the
\* accumulator holds what it would hold had the failing cards not been there.
C6_BadCardSkipped ==
  /\ [](pc = "for" =>
          films = pageBase
                    \o ValidRecords(SelectSeq(SubSeq(cards, 1, idx - 1), Extracts)))
  /\ [][ (pc = "for" /\ Fails(cards[idx])) =>
           /\ films' = films /\ cards' = cards
           /\ outcome' = outcome /\ result' = result
           /\ IF idx < Len(cards)
              THEN pc' = "for" /\ idx' = idx + 1 /\ page' = page
              ELSE pc' = "while" /\ page' = page + 1 ]_vars

\* a card that raised, in first place, and the valid card after it extracted
C6_Witness ==
  /\ Len(cards) = 2 /\ idx = 2
  /\ cards[1].raises
  /\ Extracts(cards[2])
  /\ films = Append(pageBase, ParseFilmCard(cards[2]).film)

\* C7: the returned sequence is the first records, at most N, of the valid
\* cards in discovery order (page order, then card order): nothing reordered,
\* duplicated or left out.
C7_DiscoveryOrder ==
  /\ IsPrefix(films, discovered)
  /\ outcome \in Finals => result = Take(discovered, count)

\* two different records from two pages, returned in that order
C7_Witness ==
  /\ outcome \in Finals
  /\ Len(requests) >= 2
  /\ Len(result) = 2
  /\ result[1] # result[2]
  /\ pageBase = <<result[1]>>

\* C8: the script writes the three files exactly when at least one record was
\* collected, each with one row per collected record (also when fewer than
\* asked for were collected); with no record it writes nothing and reports
\* "no data".
C8_ExportsIffRecords ==
  /\ \A f \in AllFiles :
       files[f].written =>
         /\ result # <<>>
         /\ Len(files[f].rows) = Len(result)
         /\ \A i \in 1..Len(result) :
              IF f = "json" THEN files[f].rows[i] = result[i]
              ELSE files[f].rows[i][1] = result[i].title
  /\ pc = "finished" =>
       IF result # <<>>
       THEN /\ \A f \in AllFiles : files[f].written
            /\ "no_data" \notin {output[i] : i \in 1..Len(output)}
       ELSE /\ \A f \in AllFiles : ~files[f].written
            /\ output[Len(output)] = "no_data"

\* fewer records than asked for, the next page without cards, files written
C8_Witness ==
  /\ pc = "finished"
  /\ outcome = "Stopped_no_more_results"
  /\ Len(requests) = 2
  /\ result # <<>>
  /\ Len(result) < count
  /\ \A f \in AllFiles : files[f].written /\ Len(files[f].rows) = Len(result)

\* C9: pages are fetched in the order 1, 2, 3, ..., each once; once the
\* accumulator holds N records no card is extracted and no page fetched; no
\* page is fetched after a page without cards.
C9_PageOrder ==
  /\ [](/\ requests = [i \in 1..Len(requests) |-> Url(i)]
        /\ \A i, j \in 1..Len(requests) : i # j => requests[i] # requests[j]
        /\ pc = "for" => Len(films) < count /\ Len(requests) = page
        /\ pc = "while" => Len(requests) = page - 1)
  /\ [][ /\ requests' # requests =>
              /\ requests' = Append(requests, Url(Len(requests) + 1))
              /\ Len(films) < count
              /\ requests # <<>> => html = "markup" /\ cards # <<>>
         /\ (films' # films \/ idx' # idx) => Len(films) < count
       ]_vars

\* three pages fetched, the count reached in the middle of the third
C9_Witness ==
  /\ Len(requests) = 3
  /\ outcome = "Done"
  /\ idx < Len(cards)
  /\ Len(result) = count

\* C10: every run of get_top_films with a count in [1, MAX_COUNT] eventually
\* returns (Done or Stopped), whatever the site serves, as long as each fetch
\* completes.
C10_EventuallyReturns ==
  [](pc = "while" /\ ~CountOutOfRange(count) => <>(outcome \in Finals))

====
